---- MODULE Spec2Model ----
(***************************************************************************)
(* A model of the postgres-utils helper library (src/src/index.ts): the    *)
(* case converters, the WHERE / INSERT / SET fragment builders and the     *)
(* array normaliser.                                                       *)
(*                                                                         *)
(* A JavaScript string is modelled as the sequence of its characters, so   *)
(* that replace, split, join and the formatting of numbers are computed    *)
(* as the code computes them.  A JavaScript value is a tagged record.      *)
(***************************************************************************)
EXTENDS Integers, Sequences, FiniteSets, TLC

(***************************************************************************)
(* Bounds of the model.                                                    *)
(***************************************************************************)
MaxStrLen == 3
MaxEntries == 2
MaxOffset == 2
MaxArrLen == 3
MaxElems == 1

(***************************************************************************)
(* Characters and strings.                                                 *)
(***************************************************************************)
LowerCase == <<"a", "b", "c", "d", "e", "f", "g", "h", "i", "j", "k", "l", "m", "n", "o", "p", "q", "r", "s", "t", "u", "v", "w", "x", "y", "z">>
UpperCase == <<"A", "B", "C", "D", "E", "F", "G", "H", "I", "J", "K", "L", "M", "N", "O", "P", "Q", "R", "S", "T", "U", "V", "W", "X", "Y", "Z">>
Digits == <<"0", "1", "2", "3", "4", "5", "6", "7", "8", "9">>

IndexIn(c, alphabet) == CHOOSE i \in 1..Len(alphabet) : alphabet[i] = c
IsIn(c, alphabet) == \E i \in 1..Len(alphabet) : alphabet[i] = c

\* the regular expression class [A-Z]
IsUpper(c) == IsIn(c, UpperCase)
\* the regular expression class [a-z]
IsLower(c) == IsIn(c, LowerCase)
IsDigit(c) == IsIn(c, Digits)

\* String.prototype.toLowerCase on one character
toLowerCase(c) == IF IsUpper(c) THEN LowerCase[IndexIn(c, UpperCase)] ELSE c
\* String.prototype.toUpperCase on one character
toUpperCase(c) == IF IsLower(c) THEN UpperCase[IndexIn(c, LowerCase)] ELSE c

RECURSIVE camelToSnakeCaseStringKeepingCase(_)
\* camelToSnakeCaseString without the toLowerCase of the match
camelToSnakeCaseStringKeepingCase(s) ==
    IF s = <<>> THEN <<>>
    ELSE (IF IsUpper(Head(s)) THEN <<"_", Head(s)>> ELSE <<Head(s)>>)
         \o camelToSnakeCaseStringKeepingCase(Tail(s))

RECURSIVE camelToSnakeCaseString(_)
\* s.replace(/[A-Z]/g, (match) => `_${match.toLowerCase()}`)
camelToSnakeCaseString(s) ==
    IF s = <<>> THEN <<>>
    ELSE (IF IsUpper(Head(s)) THEN <<"_", toLowerCase(Head(s))>> ELSE <<Head(s)>>)
         \o camelToSnakeCaseString(Tail(s))

RECURSIVE snakeToCamelCaseString(_)
\* s.replace(/_[a-z]/g, (match) => match.charAt(1).toUpperCase()):
\* matches are found left to right and do not overlap
snakeToCamelCaseString(s) ==
    IF s = <<>> THEN <<>>
    ELSE IF Len(s) >= 2 /\ s[1] = "_" /\ IsLower(s[2])
         THEN <<toUpperCase(s[2])>> \o snakeToCamelCaseString(SubSeq(s, 3, Len(s)))
         ELSE <<Head(s)>> \o snakeToCamelCaseString(Tail(s))

RECURSIVE NumberToString(_)
\* Number.prototype.toString and the `${n}` of a template literal, n >= 0
NumberToString(n) ==
    IF n < 10 THEN <<Digits[n + 1]>>
    ELSE NumberToString(n \div 10) \o <<Digits[(n % 10) + 1]>>

RECURSIVE ParseDigits(_, _)
ParseDigits(s, acc) ==
    IF s = <<>> \/ ~IsDigit(Head(s)) THEN acc
    ELSE ParseDigits(Tail(s), 10 * acc + (IndexIn(Head(s), Digits) - 1))

\* parseInt(stringKey) on a string that starts with a digit: the number its
\* leading digits spell
parseInt(s) == ParseDigits(s, 0)

\* String.prototype.includes with a one-character argument
includes(s, c) == \E i \in 1..Len(s) : s[i] = c

RECURSIVE split(_, _)
\* String.prototype.split with a one-character separator: every occurrence
\* of the separator cuts, and "".split(c) is [""]
split(s, c) ==
    IF ~includes(s, c) THEN <<s>>
    ELSE LET i == CHOOSE j \in 1..Len(s) : s[j] = c /\ \A h \in 1..(j - 1) : s[h] # c
         IN  <<SubSeq(s, 1, i - 1)>> \o split(SubSeq(s, i + 1, Len(s)), c)

RECURSIVE join(_, _)
\* Array.prototype.join of an array of strings
join(strs, sep) ==
    IF strs = <<>> THEN <<>>
    ELSE IF Len(strs) = 1 THEN strs[1]
    ELSE strs[1] \o sep \o join(Tail(strs), sep)

(***************************************************************************)
(* JavaScript values.  alloc tells who allocated a mutable value: the      *)
(* caller (part of the input) or the callee (a new object built by the     *)
(* function); two values are the same reference only if their alloc agree. *)
(***************************************************************************)
Num(n) == [t |-> "number", n |-> n]
Str(s) == [t |-> "string", s |-> s]
Null == [t |-> "null"]
Undefined == [t |-> "undefined"]
DateOf(id) == [t |-> "date", id |-> id, alloc |-> "caller"]
Arr(elems, alloc) == [t |-> "array", elems |-> elems, alloc |-> alloc]
Obj(entries, alloc) == [t |-> "object", entries |-> entries, alloc |-> alloc]
Fn(name) == [t |-> "function", name |-> name]

\* the typeof operator
typeof(v) ==
    IF v.t \in {"null", "date", "array", "object"} THEN "object" ELSE v.t

\* the truthiness test of !x
Falsy(v) ==
    \/ v.t \in {"undefined", "null"}
    \/ v.t = "string" /\ v.s = <<>>
    \/ v.t = "number" /\ v.n = 0

\* the conversion of a value by a template literal `${v}`, for the values
\* a property lookup in the operator table can give: a string is itself, a
\* built-in function is its source text
ToText(v) ==
    IF v.t = "string" THEN v.s
    ELSE IF v.t = "function" THEN <<"f", "u", "n", "c", "t", "i", "o", "n", " ">> \o v.name \o <<"(", ")", " ", "{", " ", "[", "n", "a", "t", "i", "v", "e", " ", "c", "o", "d", "e", "]", " ", "}">>
    ELSE IF v.t = "number" THEN NumberToString(v.n)
    ELSE IF v.t = "null" THEN <<"n", "u", "l", "l">>
    ELSE <<"u", "n", "d", "e", "f", "i", "n", "e", "d">>

(***************************************************************************)
(* Objects.  An object is the sequence of its own enumerable entries in    *)
(* property order: keys that are array indices first, ascending, then the  *)
(* other keys in insertion order.                                          *)
(***************************************************************************)
\* a canonical array index: "0", or digits with no leading zero
IsArrayIndex(k) ==
    /\ k # <<>>
    /\ \A i \in 1..Len(k) : IsDigit(k[i])
    /\ (Len(k) > 1 => k[1] # "0")

HasKey(entries, k) == \E i \in 1..Len(entries) : entries[i].k = k

\* obj[k] = v on the entries of obj
Assign(entries, k, v) ==
    IF HasKey(entries, k)
    THEN [i \in 1..Len(entries) |->
             IF entries[i].k = k THEN [k |-> k, v |-> v] ELSE entries[i]]
    ELSE IF IsArrayIndex(k)
    THEN LET before == {i \in 1..Len(entries) :
                          IsArrayIndex(entries[i].k) /\ parseInt(entries[i].k) < parseInt(k)}
             n == Cardinality(before)
         IN  SubSeq(entries, 1, n) \o <<[k |-> k, v |-> v]>>
             \o SubSeq(entries, n + 1, Len(entries))
    ELSE Append(entries, [k |-> k, v |-> v])

\* obj[k] read from the entries of obj
Get(entries, k) ==
    IF HasKey(entries, k)
    THEN entries[CHOOSE i \in 1..Len(entries) : entries[i].k = k].v
    ELSE Undefined

\* Object.entries: of an array, its elements under the keys "0", "1", ...
ObjectEntries(v) ==
    IF v.t = "array"
    THEN [i \in 1..Len(v.elems) |-> [k |-> NumberToString(i - 1), v |-> v.elems[i]]]
    ELSE IF v.t = "object" THEN v.entries
    ELSE <<>>

\* Object.keys
ObjectKeys(v) == [i \in 1..Len(ObjectEntries(v)) |-> ObjectEntries(v)[i].k]

RECURSIVE ConvertKeys(_, _, _)
\* the forEach of camelToSnakeCaseKeys / snakeToCamelCaseKeys over the
\* entries es, filling converted; snake tells which of the two runs
ConvertKeys(es, converted, snake) ==
    IF es = <<>> THEN Obj(converted, "callee")
    ELSE LET k == Head(es).k
             v == Head(es).v
             convertedKey == IF snake THEN camelToSnakeCaseString(k)
                             ELSE snakeToCamelCaseString(k)
             value == IF typeof(v) = "object" /\ v.t # "null" /\ v.t # "date"
                      THEN ConvertKeys(ObjectEntries(v), <<>>, snake)
                      ELSE v
         IN  ConvertKeys(Tail(es), Assign(converted, convertedKey, value), snake)

camelToSnakeCaseKeys(obj) == ConvertKeys(ObjectEntries(obj), <<>>, TRUE)

snakeToCamelCaseKeys(obj) == ConvertKeys(ObjectEntries(obj), <<>>, FALSE)

(***************************************************************************)
(* The comparison operator table.                                          *)
(***************************************************************************)
COMPARISON_OPERATORS_MAP ==
    << [token |-> <<"e", "q">>,        text |-> <<"=">>],
       [token |-> <<"n", "e", "q">>,       text |-> <<"<", ">">>],
       [token |-> <<"l", "t">>,        text |-> <<"<">>],
       [token |-> <<"l", "t", "e">>,       text |-> <<"<", "=">>],
       [token |-> <<"g", "t">>,        text |-> <<">">>],
       [token |-> <<"g", "t", "e">>,       text |-> <<">", "=">>],
       [token |-> <<"l", "i", "k", "e">>,      text |-> <<"L", "I", "K", "E">>],
       [token |-> <<"n", "o", "t", "L", "i", "k", "e">>,   text |-> <<"N", "O", "T", " ", "L", "I", "K", "E">>],
       [token |-> <<"i", "l", "i", "k", "e">>,     text |-> <<"I", "L", "I", "K", "E">>],
       [token |-> <<"n", "o", "t", "I", "l", "i", "k", "e">>,  text |-> <<"N", "O", "T", " ", "I", "L", "I", "K", "E">>],
       [token |-> <<"i", "n">>,        text |-> <<"I", "N">>],
       [token |-> <<"n", "o", "t", "I", "n">>,     text |-> <<"N", "O", "T", " ", "I", "N">>],
       [token |-> <<"i", "s", "N", "u", "l", "l">>,    text |-> <<"I", "S", " ", "N", "U", "L", "L">>],
       [token |-> <<"i", "s", "N", "o", "t", "N", "u", "l", "l">>, text |-> <<"I", "S", " ", "N", "O", "T", " ", "N", "U", "L", "L">>] >>

\* the table is an object literal: besides its own 14 properties it has the
\* members every object inherits from Object.prototype, each a function
ObjectPrototypeMembers ==
    << [token |-> <<"c", "o", "n", "s", "t", "r", "u", "c", "t", "o", "r">>,    name |-> <<"O", "b", "j", "e", "c", "t">>],
       [token |-> <<"t", "o", "S", "t", "r", "i", "n", "g">>,       name |-> <<"t", "o", "S", "t", "r", "i", "n", "g">>],
       [token |-> <<"v", "a", "l", "u", "e", "O", "f">>,        name |-> <<"v", "a", "l", "u", "e", "O", "f">>],
       [token |-> <<"h", "a", "s", "O", "w", "n", "P", "r", "o", "p", "e", "r", "t", "y">>, name |-> <<"h", "a", "s", "O", "w", "n", "P", "r", "o", "p", "e", "r", "t", "y">>] >>

\* COMPARISON_OPERATORS_MAP[token]; token is undefined when the key ends
\* right after its colon-free text (never the case after includes(":"))
LookupOperator(token) ==
    IF \E i \in 1..Len(COMPARISON_OPERATORS_MAP) : COMPARISON_OPERATORS_MAP[i].token = token
    THEN Str(COMPARISON_OPERATORS_MAP[
             CHOOSE i \in 1..Len(COMPARISON_OPERATORS_MAP) :
                 COMPARISON_OPERATORS_MAP[i].token = token].text)
    ELSE IF \E i \in 1..Len(ObjectPrototypeMembers) : ObjectPrototypeMembers[i].token = token
    THEN Fn(ObjectPrototypeMembers[
             CHOOSE i \in 1..Len(ObjectPrototypeMembers) :
                 ObjectPrototypeMembers[i].token = token].name)
    ELSE Undefined

\* the field of a key: tokens[0] when the key has a colon, else the key
FieldOf(k) == IF includes(k, ":") THEN split(k, ":")[1] ELSE k

\* the token looked up in the table: tokens[1] of k.split(":")
OperatorTokenOf(k) == split(k, ":")[2]

\* comparisonOperator after lines 124-132
ComparisonOperatorOf(k) ==
    IF includes(k, ":") THEN LookupOperator(OperatorTokenOf(k)) ELSE Str(<<"=">>)

\* `$${n}`
Placeholder(n) == <<"$">> \o NumberToString(n)

\* ListPlaceholderNumber without the running count params.length
ListPlaceholderNumberFromOffset(pushed, paramsOffset, i) == paramsOffset + i + 1

\* params.length + paramsOffset + i + 1, the number of the placeholder of
\* element i (from 0) of an IN list
ListPlaceholderNumber(pushed, paramsOffset, i) == Len(pushed) + paramsOffset + i + 1

\* ComparisonPlaceholderNumber without paramsOffset
ComparisonPlaceholderNumberNoOffset(pushed, paramsOffset) == Len(pushed)

\* params.length + paramsOffset, read after the push of the value
ComparisonPlaceholderNumber(pushed, paramsOffset) == Len(pushed) + paramsOffset

(***************************************************************************)
(* The INSERT and SET fragment builders.                                   *)
(***************************************************************************)
\* getParamsForInsert with `$${idx}` for `$${idx + 1}`
getParamsForInsertFromZero(insertParams) ==
    LET es == ObjectEntries(insertParams)
    IN  [columnsSegment |->
             join([i \in 1..Len(es) |-> camelToSnakeCaseString(es[i].k)], <<",", " ">>),
         paramsSegment |-> join([i \in 1..Len(es) |-> Placeholder(i - 1)], <<",", " ">>),
         values |-> [i \in 1..Len(es) |-> es[i].v]]

getParamsForInsert(insertParams) ==
    LET es == ObjectEntries(insertParams)
        columnsSegmentTokens == [i \in 1..Len(es) |-> camelToSnakeCaseString(es[i].k)]
        paramsSegmentTokens == [i \in 1..Len(es) |-> Placeholder((i - 1) + 1)]
        values == [i \in 1..Len(es) |-> es[i].v]
    IN  [columnsSegment |-> join(columnsSegmentTokens, <<",", " ">>),
         paramsSegment |-> join(paramsSegmentTokens, <<",", " ">>),
         values |-> values]

getParamsForSet(setParams) ==
    LET es == ObjectEntries(setParams)
        sqlSegmentTokens ==
            [i \in 1..Len(es) |->
                camelToSnakeCaseString(es[i].k) \o <<"=">> \o Placeholder((i - 1) + 1)]
        values == [i \in 1..Len(es) |-> es[i].v]
    IN  [sqlSegment |-> join(sqlSegmentTokens, <<",", " ">>), values |-> values]

(***************************************************************************)
(* The array normaliser.                                                   *)
(***************************************************************************)
RECURSIVE CodeUnitsLess(_, _)
\* a < b for two strings: by code units, a proper prefix first
CodeUnitsLess(a, b) ==
    IF b = <<>> THEN FALSE
    ELSE IF a = <<>> THEN TRUE
    ELSE IF Head(a) # Head(b)
         THEN IndexIn(Head(a), Digits) < IndexIn(Head(b), Digits)
    ELSE CodeUnitsLess(Tail(a), Tail(b))

\* the comparison Array.prototype.sort uses when given no comparator: the
\* elements are compared as the strings they convert to
DefaultSortLess(x, y) == CodeUnitsLess(NumberToString(x), NumberToString(y))

RECURSIVE InsertSorted(_, _)
InsertSorted(sorted, x) ==
    IF sorted = <<>> THEN <<x>>
    ELSE IF DefaultSortLess(x, Head(sorted)) THEN <<x>> \o sorted
    ELSE <<Head(sorted)>> \o InsertSorted(Tail(sorted), x)

RECURSIVE sort(_)
\* Array.prototype.sort() with no comparator (stable)
sort(xs) == IF xs = <<>> THEN <<>> ELSE InsertSorted(sort(SubSeq(xs, 1, Len(xs) - 1)), xs[Len(xs)])

arrayObjectToArray(arrayObject) ==
    LET keys == ObjectKeys(arrayObject)
        numericKeys == sort([i \in 1..Len(keys) |-> parseInt(keys[i])])
        stringKeys == [i \in 1..Len(numericKeys) |-> NumberToString(numericKeys[i])]
    IN  Arr([i \in 1..Len(stringKeys) |-> Get(arrayObject.entries, stringKeys[i])], "callee")

(***************************************************************************)
(* The state: the call in progress or last returned (fn, arg, ret), the    *)
(* call before it when the caller passed its result on (prev), and the     *)
(* locals of getWhereParams while its forEach runs (idx, lines, params).   *)
(***************************************************************************)
VARIABLES pc, fn, arg, ret, prev, idx, lines, params
vars == <<pc, fn, arg, ret, prev, idx, lines, params>>

NoCall == [fn |-> "none"]
Pending == [t |-> "pending"]
Thrown(name, message) == [t |-> "error", name |-> name, message |-> message]

(***************************************************************************)
(* The inputs the calls are explored on.                                   *)
(***************************************************************************)
Alphabet == {"a", "b", "B", "1", "_"}

RECURSIVE StringsUpTo(_)
StringsUpTo(n) ==
    IF n = 0 THEN {<<>>}
    ELSE LET shorter == StringsUpTo(n - 1)
         IN  shorter \cup {Append(s, c) : s \in {x \in shorter : Len(x) = n - 1}, c \in Alphabet}

Strings == StringsUpTo(MaxStrLen)

RECURSIVE MappingsUpTo(_, _)
\* the objects of at most n entries drawn from options, keys distinct, each
\* as the sequence of its entries in insertion order
MappingsUpTo(options, n) ==
    IF n = 0 THEN {<<>>}
    ELSE LET shorter == MappingsUpTo(options, n - 1)
         IN  shorter \cup
             UNION {{Append(m, e) : e \in {o \in options : ~HasKey(m, o.k)}} :
                       m \in {x \in shorter : Len(x) = n - 1}}

InsertOptions ==
    { [k |-> <<"f", "i", "r", "s", "t", "N", "a", "m", "e">>, v |-> Str(<<"J", "o">>)],
      [k |-> <<"a", "g", "e">>, v |-> Num(5)],
      [k |-> <<"a", "g", "e">>, v |-> Null],
      [k |-> <<"c", "r", "e", "a", "t", "e", "d", "A", "t">>, v |-> DateOf(1)],
      [k |-> <<"i", "d">>, v |-> Num(7)] }

SetOptions ==
    { [k |-> <<"f", "i", "r", "s", "t", "N", "a", "m", "e">>, v |-> Str(<<"J", "o">>)],
      [k |-> <<"a", "g", "e">>, v |-> Num(5)] }

WhereOptions ==
    { [k |-> <<"a", "g", "e">>, v |-> Num(18)],
      [k |-> <<"a", "g", "e", ":", "g", "t", "e">>, v |-> Num(18)],
      [k |-> <<"a", "g", "e", ":", "l", "t">>, v |-> Num(65)],
      [k |-> <<"f", "i", "r", "s", "t", "N", "a", "m", "e", ":", "l", "i", "k", "e">>, v |-> Str(<<"J", "%">>)],
      [k |-> <<"d", "e", "l", "e", "t", "e", "d", "A", "t", ":", "i", "s", "N", "u", "l", "l">>, v |-> Null],
      [k |-> <<"f", "i", "r", "s", "t", "N", "a", "m", "e", ":", "i", "s", "N", "o", "t", "N", "u", "l", "l">>, v |-> Null],
      [k |-> <<"s", "t", "a", "t", "u", "s", ":", "i", "n">>, v |-> Str(<<"a", ",", "b", ",", "c">>)],
      [k |-> <<"s", "t", "a", "t", "u", "s", ":", "i", "n">>, v |-> Str(<<"a">>)],
      [k |-> <<"s", "t", "a", "t", "u", "s", ":", "i", "n">>, v |-> Num(5)],
      [k |-> <<"s", "t", "a", "t", "u", "s", ":", "n", "o", "t", "I", "n">>, v |-> Str(<<"a", ",", "b">>)],
      [k |-> <<"x", ":", "b", "o", "g", "u", "s">>, v |-> Num(1)],
      [k |-> <<"x", ":">>, v |-> Num(1)],
      [k |-> <<"x", ":", "c", "o", "n", "s", "t", "r", "u", "c", "t", "o", "r">>, v |-> Num(1)],
      [k |-> <<"a", "g", "e", ":", "g", "t", "e", ":", "x">>, v |-> Num(18)] }

InsertMappings == {Obj(m, "caller") : m \in MappingsUpTo(InsertOptions, MaxEntries)}

SetMappings == {Obj(m, "caller") : m \in MappingsUpTo(SetOptions, MaxEntries)}

WhereMappings == {Obj(m, "caller") : m \in MappingsUpTo(WhereOptions, MaxEntries)}

\* objects with nested objects, arrays and dates, for the key converters
Leaves == {Num(1), Null, DateOf(1)}

KeyNames == {<<"a", "B">>, <<"c", "_", "d">>, <<"a", "_", "b">>}

Elements == {Num(1), Obj(<<[k |-> <<"a", "B">>, v |-> Num(1)]>>, "caller")}

RECURSIVE ElementsUpTo(_)
ElementsUpTo(n) ==
    IF n = 0 THEN {<<>>}
    ELSE LET shorter == ElementsUpTo(n - 1)
         IN  shorter \cup {Append(s, e) : s \in {x \in shorter : Len(x) = n - 1}, e \in Elements}

Arrays == {Arr(elems, "caller") : elems \in ElementsUpTo(MaxElems)}

NestedObjects ==
    { Obj(<<>>, "caller"),
      Obj(<<[k |-> <<"a", "B">>, v |-> Num(1)]>>, "caller"),
      Obj(<<[k |-> <<"c", "_", "d">>, v |-> DateOf(1)]>>, "caller") }

KeyOptions == {[k |-> k, v |-> v] : k \in KeyNames, v \in Leaves \cup NestedObjects \cup Arrays}

KeyObjects == {Obj(m, "caller") : m \in MappingsUpTo(KeyOptions, MaxEntries)}

\* array objects: the keys are array indices, so the entries are in
\* ascending numeric order of their keys whatever the insertion order was
IndexKeys == {0, 1, 2, 9, 10, 11}

RECURSIVE Ascending(_)
Ascending(S) ==
    IF S = {} THEN <<>>
    ELSE LET least == CHOOSE x \in S : \A y \in S : x <= y
         IN  <<least>> \o Ascending(S \ {least})

ArrayObjects ==
    UNION {{Obj([i \in 1..Cardinality(S) |->
                    [k |-> NumberToString(Ascending(S)[i]), v |-> f[Ascending(S)[i]]]],
                "caller") : f \in [S -> {Str(<<"x">>), Str(<<"y">>)}]} :
             S \in {T \in SUBSET IndexKeys : Cardinality(T) <= MaxArrLen}}

Init ==
    /\ pc = "idle"
    /\ fn = "none"
    /\ arg = Undefined
    /\ ret = Undefined
    /\ prev = NoCall
    /\ idx = 0
    /\ lines = <<>>
    /\ params = <<>>

ThisCall == [fn |-> fn, arg |-> arg, ret |-> ret]

\* No function of the library reads or writes state that outlives its call,
\* so every call is explored on its own, as the first call of the program
\* (FirstCall), or as the caller's next call on the result of the call
\* just before it (NextCallAfter).
FirstCall == pc = "idle" /\ fn = "none"
NextCallAfter(f) == pc = "idle" /\ fn = f /\ prev = NoCall

\* a call of f on a that runs to its return r in one step
Returns(f, a, r, p) ==
    /\ fn' = f
    /\ arg' = a
    /\ ret' = r
    /\ prev' = p
    /\ UNCHANGED <<pc, idx, lines, params>>

CallCamelToSnakeCaseString ==
    /\ FirstCall
    /\ \E s \in Strings :
           Returns("camelToSnakeCaseString", Str(s), Str(camelToSnakeCaseString(s)), NoCall)

CallSnakeToCamelCaseString ==
    /\ FirstCall
    /\ \E s \in Strings :
           Returns("snakeToCamelCaseString", Str(s), Str(snakeToCamelCaseString(s)), NoCall)

\* the caller converts the result of camelToSnakeCaseString back
CallSnakeToCamelCaseStringOnResult ==
    /\ NextCallAfter("camelToSnakeCaseString")
    /\ Returns("snakeToCamelCaseString", ret, Str(snakeToCamelCaseString(ret.s)), ThisCall)

\* the caller converts the result of snakeToCamelCaseString back
CallCamelToSnakeCaseStringOnResult ==
    /\ NextCallAfter("snakeToCamelCaseString")
    /\ Returns("camelToSnakeCaseString", ret, Str(camelToSnakeCaseString(ret.s)), ThisCall)

CallCamelToSnakeCaseKeys ==
    /\ FirstCall
    /\ \E obj \in KeyObjects :
           Returns("camelToSnakeCaseKeys", obj, camelToSnakeCaseKeys(obj), NoCall)

CallSnakeToCamelCaseKeys ==
    /\ FirstCall
    /\ \E obj \in KeyObjects :
           Returns("snakeToCamelCaseKeys", obj, snakeToCamelCaseKeys(obj), NoCall)

CallGetParamsForInsert ==
    /\ FirstCall
    /\ \E m \in InsertMappings :
           Returns("getParamsForInsert", m, getParamsForInsert(m), NoCall)

CallGetParamsForSet ==
    /\ FirstCall
    /\ \E m \in SetMappings :
           Returns("getParamsForSet", m, getParamsForSet(m), NoCall)

CallArrayObjectToArray ==
    /\ FirstCall
    /\ \E arrayObject \in ArrayObjects :
           Returns("arrayObjectToArray", arrayObject, arrayObjectToArray(arrayObject), NoCall)

(***************************************************************************)
(* getWhereParams: entry, one step per forEach callback, return.           *)
(***************************************************************************)
EnterGetWhereParams(whereParams, paramsOffset, p) ==
    /\ pc' = "forEach"
    /\ fn' = "getWhereParams"
    /\ arg' = [whereParams |-> whereParams, paramsOffset |-> paramsOffset]
    /\ ret' = Pending
    /\ prev' = p
    /\ idx' = 0
    /\ lines' = <<>>
    /\ params' = <<>>

CallGetWhereParams ==
    /\ FirstCall
    /\ \E m \in WhereMappings, paramsOffset \in 0..MaxOffset :
           EnterGetWhereParams(m, paramsOffset, NoCall)

\* the caller builds the WHERE fragment of an UPDATE after its SET fragment,
\* the two sharing one parameter array
CallGetWhereParamsAfterSet ==
    /\ NextCallAfter("getParamsForSet")
    /\ \E m \in WhereMappings :
           EnterGetWhereParams(m, Len(ret.values), ThisCall)

Throw(e) ==
    /\ pc' = "thrown"
    /\ ret' = e
    /\ UNCHANGED <<fn, arg, prev, idx, lines, params>>

Continue(newLines, newParams) ==
    /\ idx' = idx + 1
    /\ lines' = newLines
    /\ params' = newParams
    /\ UNCHANGED <<pc, fn, arg, ret, prev>>

\* the callback of the forEach on the entry [k, v] at position idx
WhereEntry ==
    /\ pc = "forEach"
    /\ idx < Len(ObjectEntries(arg.whereParams))
    /\ LET k == ObjectEntries(arg.whereParams)[idx + 1].k
           v == ObjectEntries(arg.whereParams)[idx + 1].v
           paramsOffset == arg.paramsOffset
           field == FieldOf(k)
           comparisonOperator == ComparisonOperatorOf(k)
           column == camelToSnakeCaseString(field)
       IN  IF includes(k, ":") /\ Falsy(comparisonOperator)
           THEN Throw(Thrown("Error", "Invalid comparison operator"))
           ELSE IF comparisonOperator \in {Str(<<"I", "S", " ", "N", "U", "L", "L">>), Str(<<"I", "S", " ", "N", "O", "T", " ", "N", "U", "L", "L">>)}
           THEN Continue(Append(lines, column \o <<" ">> \o ToText(comparisonOperator)),
                         params)
           ELSE IF comparisonOperator \in {Str(<<"I", "N">>), Str(<<"N", "O", "T", " ", "I", "N">>)}
           THEN IF v.t # "string"
                THEN Throw(Thrown("TypeError", "v.split is not a function"))
                ELSE LET arrayParam == split(v.s, ",")
                         placeholders ==
                             [i \in 1..Len(arrayParam) |->
                                 Placeholder(ListPlaceholderNumber(params, paramsOffset, i - 1))]
                     IN  Continue(
                             Append(lines, column \o <<" ">> \o ToText(comparisonOperator)
                                           \o <<" ", "(">> \o join(placeholders, <<",", " ">>) \o <<")">>),
                             Append(params,
                                    Arr([i \in 1..Len(arrayParam) |-> Str(arrayParam[i])],
                                        "callee")))
           ELSE LET pushed == Append(params, v)
                IN  Continue(
                        Append(lines, column \o <<" ">> \o ToText(comparisonOperator)
                                      \o <<" ">>
                                      \o Placeholder(ComparisonPlaceholderNumber(pushed, paramsOffset))),
                        pushed)

\* the return after the forEach
WhereReturn ==
    /\ pc = "forEach"
    /\ idx = Len(ObjectEntries(arg.whereParams))
    /\ pc' = "idle"
    /\ ret' = [whereSegment |-> join(lines, <<"\n", "A", "N", "D", "\n">>), whereParams |-> params]
    /\ UNCHANGED <<fn, arg, prev, idx, lines, params>>

Next ==
    \/ CallCamelToSnakeCaseString
    \/ CallSnakeToCamelCaseString
    \/ CallSnakeToCamelCaseStringOnResult
    \/ CallCamelToSnakeCaseStringOnResult
    \/ CallCamelToSnakeCaseKeys
    \/ CallSnakeToCamelCaseKeys
    \/ CallGetParamsForInsert
    \/ CallGetParamsForSet
    \/ CallArrayObjectToArray
    \/ CallGetWhereParams
    \/ CallGetWhereParamsAfterSet
    \/ WhereEntry
    \/ WhereReturn

Spec == Init /\ [][Next]_vars

(***************************************************************************)
(* The properties checked.                                                 *)
(***************************************************************************)
\* f has returned (it did not throw)
Returned(f) == pc = "idle" /\ fn = f

RECURSIVE PlaceholderNumbers(_)
\* the numbers of the positional placeholders $n of a text, left to right
PlaceholderNumbers(text) ==
    IF text = <<>> THEN <<>>
    ELSE IF Head(text) = "$" /\ Len(text) >= 2 /\ IsDigit(text[2])
         THEN <<ParseDigits(Tail(text), 0)>> \o PlaceholderNumbers(Tail(text))
         ELSE PlaceholderNumbers(Tail(text))

\* the numbers first, first + 1, ..., first + n - 1
Contiguous(first, n) == [i \in 1..n |-> first + i - 1]

WhereEntries == ObjectEntries(arg.whereParams)
OperatorText(k) == ToText(ComparisonOperatorOf(k))
IsNullTest(k) == OperatorText(k) \in {<<"I", "S", " ", "N", "U", "L", "L">>, <<"I", "S", " ", "N", "O", "T", " ", "N", "U", "L", "L">>}
IsListTest(k) == OperatorText(k) \in {<<"I", "N">>, <<"N", "O", "T", " ", "I", "N">>}
\* the entries among the first n that push a parameter
Pushing(n) == {i \in 1..n : ~IsNullTest(WhereEntries[i].k)}
\* the number of comma-separated elements of a string
ElementCount(str) == Cardinality({i \in 1..Len(str) : str[i] = ","}) + 1

\* C1: for every field mapping getWhereParams accepts and every paramsOffset,
\* the placeholders of whereSegment are as many as whereParams is long and
\* are numbered paramsOffset + 1, paramsOffset + 2, ... left to right, with
\* no gap and no repeat.
C1_PlaceholdersMatchParams ==
    Returned("getWhereParams") =>
        PlaceholderNumbers(ret.whereSegment)
            = Contiguous(arg.paramsOffset + 1, Len(ret.whereParams))

\* C2: arrayObjectToArray returns the values of the mapping ordered by the
\* numeric value of their keys, ascending: the value whose key has r smaller
\* keys is at position r + 1.
C2_NumericKeyOrder ==
    Returned("arrayObjectToArray") =>
        /\ Len(ret.elems) = Len(arg.entries)
        /\ \A i \in 1..Len(arg.entries) :
               LET smaller == {j \in 1..Len(arg.entries) :
                                  parseInt(arg.entries[j].k) < parseInt(arg.entries[i].k)}
               IN  ret.elems[Cardinality(smaller) + 1] = arg.entries[i].v

\* the 14 tokens of the comparison operator table
OperatorTokens ==
    { <<"e", "q">>, <<"n", "e", "q">>, <<"l", "t">>, <<"l", "t", "e">>, <<"g", "t">>, <<"g", "t", "e">>, <<"l", "i", "k", "e">>, <<"n", "o", "t", "L", "i", "k", "e">>,
      <<"i", "l", "i", "k", "e">>, <<"n", "o", "t", "I", "l", "i", "k", "e">>, <<"i", "n">>, <<"n", "o", "t", "I", "n">>, <<"i", "s", "N", "u", "l", "l">>, <<"i", "s", "N", "o", "t", "N", "u", "l", "l">> }

\* C3: a call of getWhereParams on a mapping with a key whose operator token
\* is none of the 14 tokens of the table (the empty token and the names of
\* inherited object properties included) returns no fragment.
C3_UnknownOperatorRejected ==
    (/\ fn = "getWhereParams"
     /\ \E i \in 1..Len(WhereEntries) :
            /\ includes(WhereEntries[i].k, ":")
            /\ OperatorTokenOf(WhereEntries[i].k) \notin OperatorTokens)
    => pc # "idle"

\* the strings of lowercase letters, digits and single underscores that are
\* not adjacent to digits
Supported(s) ==
    /\ \A i \in 1..Len(s) : IsLower(s[i]) \/ IsDigit(s[i]) \/ s[i] = "_"
    /\ \A i \in 1..(Len(s) - 1) :
           /\ ~(s[i] = "_" /\ s[i + 1] = "_")
           /\ ~(s[i] = "_" /\ IsDigit(s[i + 1]))
           /\ ~(IsDigit(s[i]) /\ s[i + 1] = "_")

\* g was called on the result of f, which was called on a supported string
RoundTrip(f, g) ==
    /\ Returned(g)
    /\ prev.fn = f
    /\ arg = prev.ret
    /\ Supported(prev.arg.s)

\* C4 as stated: snakeToCamelCaseString(camelToSnakeCaseString(s)) = s for
\* every supported string s.
C4_SnakeThenBackToCamel ==
    RoundTrip("camelToSnakeCaseString", "snakeToCamelCaseString") => ret = prev.arg

\* C4 as amended: camelToSnakeCaseString(snakeToCamelCaseString(s)) = s for
\* every supported string s.
C4_CamelThenBackToSnake ==
    RoundTrip("snakeToCamelCaseString", "camelToSnakeCaseString") => ret = prev.arg

\* a supported string with an underscore that snakeToCamelCaseString folded
\* into a capital, converted back
C4_Witness ==
    /\ RoundTrip("snakeToCamelCaseString", "camelToSnakeCaseString")
    /\ prev.arg = Str(<<"a", "_", "b">>)
    /\ prev.ret = Str(<<"a", "B">>)
    /\ ret = Str(<<"a", "_", "b">>)

KeysConverterReturned ==
    Returned("camelToSnakeCaseKeys") \/ Returned("snakeToCamelCaseKeys")
ConvertedKey(k) ==
    IF fn = "camelToSnakeCaseKeys" THEN camelToSnakeCaseString(k)
    ELSE snakeToCamelCaseString(k)

\* C5: camelToSnakeCaseKeys and snakeToCamelCaseKeys do not recurse into
\* arrays: a value that is an array is, in the output, the very same array
\* under the converted key (unless a later entry took that key).
C5_ArraysCopiedByReference ==
    KeysConverterReturned =>
        \A i \in 1..Len(arg.entries) :
            (/\ arg.entries[i].v.t = "array"
             /\ \A j \in (i + 1)..Len(arg.entries) :
                    ConvertedKey(arg.entries[j].k) # ConvertedKey(arg.entries[i].k))
            => Get(ret.entries, ConvertedKey(arg.entries[i].k)) = arg.entries[i].v

\* the value bound to the placeholders of the entry [k, v] of a WHERE mapping
BoundValue(e) ==
    IF IsListTest(e.k)
    THEN Arr([i \in 1..Len(split(e.v.s, ","))  |-> Str(split(e.v.s, ",")[i])], "callee")
    ELSE e.v

\* C6: after getParamsForSet returned (sqlSegment, values) and getWhereParams
\* was called with paramsOffset = values.length, no placeholder number is in
\* both segments, and every placeholder $k of either segment is bound, at
\* position k of values ++ whereParams, to the value of its own entry.
C6_SharedParameterArray ==
    (Returned("getWhereParams") /\ prev.fn = "getParamsForSet") =>
        LET shared == prev.ret.values \o ret.whereParams
            setNumbers == PlaceholderNumbers(prev.ret.sqlSegment)
            whereNumbers == PlaceholderNumbers(ret.whereSegment)
        IN  /\ \A i \in 1..Len(setNumbers), j \in 1..Len(whereNumbers) :
                   setNumbers[i] # whereNumbers[j]
            /\ Len(setNumbers) = Len(prev.arg.entries)
            /\ \A i \in 1..Len(setNumbers) :
                   /\ setNumbers[i] \in 1..Len(shared)
                   /\ shared[setNumbers[i]] = prev.arg.entries[i].v
            /\ \A j \in 1..Len(lines) :
                   \A n \in 1..Len(PlaceholderNumbers(lines[j])) :
                       LET k == PlaceholderNumbers(lines[j])[n]
                       IN  /\ k \in 1..Len(shared)
                           /\ shared[k] = BoundValue(WhereEntries[j])

\* the line of entry j of a mapping, by the rule of C7
ExpectedLine(j) ==
    LET k == WhereEntries[j].k
        start == camelToSnakeCaseString(FieldOf(k)) \o <<" ">> \o OperatorText(k)
    IN  IF IsNullTest(k) THEN start
        ELSE start \o <<" ", "$">> \o NumberToString(arg.paramsOffset + Cardinality(Pushing(j)))

NoListTest == \A i \in 1..Len(WhereEntries) : ~IsListTest(WhereEntries[i].k)

\* C7: for a mapping with no in/notIn entry, getWhereParams emits one line
\* per entry, in order, joined by the AND separator; an isNull/isNotNull entry
\* emits '<field> <operator>' and pushes nothing; the j-th other entry emits
\* '<field> <operator> $(paramsOffset + j)' and its value is whereParams[j].
C7_OneLinePerEntry ==
    (Returned("getWhereParams") /\ NoListTest) =>
        /\ split(ret.whereSegment, "\n")
               = [i \in 1..(2 * Len(WhereEntries) - 1) |->
                     IF i % 2 = 1 THEN ExpectedLine((i + 1) \div 2) ELSE <<"A", "N", "D">>]
           \/ (WhereEntries = <<>> /\ ret.whereSegment = <<>>)
        /\ Len(ret.whereParams) = Cardinality(Pushing(Len(WhereEntries)))
        /\ \A i \in Pushing(Len(WhereEntries)) :
               ret.whereParams[Cardinality(Pushing(i))] = WhereEntries[i].v

\* an isNull entry, then a comparison, under an offset of 2: the line of the
\* comparison has $3 and whereParams holds its value alone
C7_Witness ==
    /\ Returned("getWhereParams")
    /\ NoListTest
    /\ arg.paramsOffset = 2
    /\ Len(WhereEntries) = 2
    /\ IsNullTest(WhereEntries[1].k)
    /\ ret.whereSegment = <<"d", "e", "l", "e", "t", "e", "d", "_", "a", "t", " ", "I", "S", " ", "N", "U", "L", "L", "\n", "A", "N", "D", "\n", "a", "g", "e", " ", "<", " ", "$", "3">>
    /\ ret.whereParams = <<Num(65)>>

\* C8: getParamsForInsert returns the keys in snake_case, in order, joined by
\* ', ', the placeholders $1, ..., $n joined by ', ', and the values in
\* order; the empty mapping gives two empty strings and no value.
C8_InsertFragment ==
    Returned("getParamsForInsert") =>
        LET n == Len(arg.entries)
            lead(i) == IF i = 1 THEN <<>> ELSE <<" ">>
        IN  /\ IF n = 0
               THEN ret.columnsSegment = <<>> /\ ret.paramsSegment = <<>>
               ELSE /\ split(ret.columnsSegment, ",")
                        = [i \in 1..n |-> lead(i) \o camelToSnakeCaseString(arg.entries[i].k)]
                    /\ split(ret.paramsSegment, ",")
                        = [i \in 1..n |-> lead(i) \o <<"$">> \o NumberToString(i)]
            /\ ret.values = [i \in 1..n |-> arg.entries[i].v]

\* the mapping { firstName: "Jo", age: 5 }
C8_Witness ==
    /\ Returned("getParamsForInsert")
    /\ ret.columnsSegment = <<"f", "i", "r", "s", "t", "_", "n", "a", "m", "e", ",", " ", "a", "g", "e">>
    /\ ret.paramsSegment = <<"$", "1", ",", " ", "$", "2">>
    /\ ret.values = <<Str(<<"J", "o">>), Num(5)>>

\* the in/notIn entries with a string value among the entries processed
ListEntriesDone ==
    {j \in 1..idx : IsListTest(WhereEntries[j].k) /\ WhereEntries[j].v.t = "string"}

\* C9: an in/notIn entry whose value has m comma-separated elements,
\* processed when c parameters were pushed, emits '<field> <operator> (...)'
\* with m placeholders numbered paramsOffset + c + 1 .. paramsOffset + c + m,
\* and pushes one parameter, the whole list of m elements.
C9_ListEntry ==
    (fn = "getWhereParams" /\ pc # "thrown") =>
        /\ Len(params) = Cardinality(Pushing(idx))
        /\ \A j \in ListEntriesDone :
               LET k == WhereEntries[j].k
                   m == ElementCount(WhereEntries[j].v.s)
                   c == Cardinality(Pushing(j - 1))
                   head == camelToSnakeCaseString(FieldOf(k)) \o <<" ">> \o OperatorText(k)
                               \o <<" ", "(">>
               IN  /\ SubSeq(lines[j], 1, Len(head)) = head
                   /\ lines[j][Len(lines[j])] = ")"
                   /\ PlaceholderNumbers(lines[j]) = Contiguous(arg.paramsOffset + c + 1, m)
                   /\ params[c + 1].t = "array"
                   /\ Len(params[c + 1].elems) = m
                   /\ join([i \in 1..m |-> params[c + 1].elems[i].s], <<",">>)
                          = WhereEntries[j].v.s

\* { age: 18, status:in 'a,b,c' } under an offset of 2: three placeholders
\* $4, $5, $6 and one parameter, the list
C9_Witness ==
    /\ Returned("getWhereParams")
    /\ arg.paramsOffset = 2
    /\ lines = <<<<"a", "g", "e", " ", "=", " ", "$", "3">>, <<"s", "t", "a", "t", "u", "s", " ", "I", "N", " ", "(", "$", "4", ",", " ", "$", "5", ",", " ", "$", "6", ")">>>>
    /\ params = <<Num(18), Arr(<<Str(<<"a">>), Str(<<"b">>), Str(<<"c">>)>>, "callee")>>

\* the number of colons of a key
Colons(k) == Cardinality({i \in 1..Len(k) : k[i] = ":"})

\* C10: the operator token of a key is all of the key after its first colon,
\* so a key with two or more colons has a token that is not in the table and
\* the call raises the invalid-operator error: it returns no fragment.
C10_TokenIsRestAfterFirstColon ==
    (/\ fn = "getWhereParams"
     /\ \E i \in 1..Len(WhereEntries) : Colons(WhereEntries[i].k) >= 2)
    => pc # "idle"
====
